---- MODULE Spec2Model ----
(***************************************************************************)
(* Model of the agents of trinity_agent_system                             *)
(* (src/src/core/base_agent.py): BaseAgent's constructor, run, think, act, *)
(* _extract_and_execute_action, register_tool, get_status and              *)
(* clear_history, and the budget ledger of MicroCEO                        *)
(* (src/src/agents/micro_ceo.py).                                          *)
(*                                                                         *)
(* Texts are sequences of tokens.  A token is the trigger phrase TRIG,     *)
(* white space SP, a quote Q, a non-word character PUNCT, or a word.       *)
(* Optional values are sequences of length at most one: <<>> is None and   *)
(* <<v>> is the value v.  A mapping is a record with one optional field    *)
(* per key that the modelled code reads or writes.                         *)
(***************************************************************************)
EXTENDS Integers, Sequences, FiniteSets, TLC

\* ---------------------------------------------------------------- bounds
\* number of coroutines that may execute run on the agent
MaxProcs == 2
\* number of run invocations in one behaviour
MaxRuns == 2
\* largest iteration cap (argument or configured attribute) that is tried
MaxCap == 2
\* number of register_tool calls in one behaviour
MaxRegs == 1
\* last clock second
MaxClock == 1
\* number of register_tool calls where registrations are studied on their own
MaxDescs == 2
\* largest initial budget, in currency units
MaxBudget == 2
\* largest amount passed to the budget handler
MaxAmount == 3
\* number of budget handler calls that change the ledger in one behaviour
MaxSpends == 2
\* largest absolute balance that allocate calls are followed to
MaxBalance == 4
\* number of coroutines that call execute_task or run_all
MaxExecs == 3
\* largest max_concurrent of a TaskEngine
MaxSlots == 2
\* number of add_task calls in one behaviour
MaxQueue == 2
\* largest limit passed to the history endpoint
MaxLimit == 3
\* number of add_short_term calls in one behaviour
MaxAdds == 203
\* number of disk writes that fail in one behaviour
MaxDiskFailures == 1
\* if len(self.short_term) > 100
ShortTermLimit == 100
\* sorted(...)[:10]
Consolidated == 10
\* TaskEngine(max_concurrent = 5)
DefaultMaxConcurrent == 5

Procs == 1..MaxProcs

\* ---------------------------------------------------------------- tokens
TRIG == "use"
SP == " "
Q == "'"
PUNCT == "."
\* the value None where a mapping holds it under a key
NoneVal == <<"<None>">>

ToolNames == {"echo", "calc"}
Words == ToolNames \cup {"nope", "w", TRIG}

\* ---------------------------------------------------------------- enums
AgentStatus == {"idle", "thinking", "acting", "learning", "error"}

Some(v) == <<v>>
None == <<>>

\* a mapping with the keys the run loop and the handlers use
Dict(message, echoed, result, tool) ==
    [message |-> message, echoed |-> echoed, result |-> result, tool |-> tool,
     error |-> <<>>]
\* a mapping that reports a rejection: {"error": text}
ErrorPayload(text) == [Dict(<<>>, <<>>, <<>>, <<>>) EXCEPT !.error = <<text>>]

\* dict.get(key "tool", default)
GetTool(data, default) == IF data.tool = None THEN default ELSE data.tool[1]

\* isinstance(v, str) for a value held in a mapping
IsStr(v) == v # NoneVal

\* ---------------------------------------------------------------- texts
\* think's answer when the agent has no LLM client
NoLLMText == <<"w", SP, "w", PUNCT>>
\* think's answer when the LLM call raised e: a fixed prefix, then str(e)
LLMFailText(e) == <<"w", PUNCT, SP>> \o e
\* what the LLM may answer
LLMTexts ==
    { <<TRIG, PUNCT, "echo">>,
      <<TRIG, SP, "echo">>,
      <<"w", TRIG, SP, SP, Q, "calc", Q>> }
\* str(e) of what the LLM call may raise
LLMErrors == { <<"w">>, <<TRIG, SP, "echo">> }
Exception(cls, msg) == [cls |-> cls, msg |-> msg]
NoException == Exception("", <<>>)

\* the context argument of run: one that json.dumps encodes (or none), or
\* one holding a value json.dumps rejects
Contexts == {"none", "unserializable"}

\* re.search(tool_pattern, text): the word captured by the leftmost match of
\*   trigger \s+ quote? (\w+) quote?
\* from position i on, None when the pattern matches nowhere
RECURSIVE SkipSpaces(_, _)
SkipSpaces(text, j) ==
    IF j <= Len(text) /\ text[j] = SP THEN SkipSpaces(text, j + 1) ELSE j

MatchAt(text, i) ==
    IF text[i] # TRIG \/ i + 1 > Len(text) \/ text[i + 1] # SP
    THEN None
    ELSE LET j == SkipSpaces(text, i + 1)
             k == IF j <= Len(text) /\ text[j] = Q THEN j + 1 ELSE j
         IN  IF k <= Len(text) /\ text[k] \in Words THEN Some(text[k]) ELSE None

RECURSIVE SearchFrom(_, _)
SearchFrom(text, i) ==
    IF i > Len(text) THEN None
    ELSE IF MatchAt(text, i) # None THEN MatchAt(text, i)
    ELSE SearchFrom(text, i + 1)

ExtractToolName(text) == SearchFrom(text, 1)

\* ---------------------------------------------------------------- tools
\* the callables a tool name may be registered with: echo is
\* lambda query: {"echoed": query}; search is any coroutine function
Handlers == {"echo", "search"}
\* asyncio.iscoroutinefunction(tool)
IsAsync(h) == h = "search"

Raise(cls, msg) == [kind |-> "raise", cls |-> cls, msg |-> msg, value |-> <<>>, isdict |-> FALSE]
Return(value, isdict) == [kind |-> "return", cls |-> "", msg |-> <<>>, value |-> value, isdict |-> isdict]

\* what tool(**{"query": text}) may do: return a mapping (which may hold
\* anything under "tool", or report a rejection under "error" as the
\* handlers of the agents do), return another value, or raise (TypeError
\* when it takes no query parameter)
HandlerOutcomes(h, text) ==
    IF h = "echo"
    THEN { Return(Dict(None, Some(text), None, None), TRUE) }
    ELSE { Return(Dict(None, None, Some(<<"hits">>), None), TRUE),
           Return(Dict(None, None, None, Some(<<"web">>)), TRUE),
           Return(Dict(None, None, None, Some(NoneVal)), TRUE),
           Return(ErrorPayload(<<"rejected">>), TRUE),
           Return(<<"42">>, FALSE),
           Raise("TypeError", <<"unexpected", SP, "query">>) }

\* ---------------------------------------------------------------- results
ActionResult(success, data, error) == [success |-> success, data |-> data, error |-> error]
NoResult == ActionResult(FALSE, None, None)

NoToolNeeded == Dict(Some(<<"done", SP, "no", SP, "tool">>), None, None, None)
\* an error message that does not depend on the action
NotFoundMessageFixed(action) == <<"tool", SP, "missing">>
\* the error of act for a name without a tool (line 223)
NotFoundMessage(action) == <<"tool", SP, Q, action, Q, SP, "missing">>

ThoughtStep(step_type, content, confidence, tools_used) ==
    [step_type |-> step_type, content |-> content, confidence |-> confidence, tools_used |-> tools_used]

AgentThought(task_id) ==
    [task_id |-> task_id, status |-> "idle", thought_steps |-> <<>>,
     final_result |-> None, completed_at |-> None]

\* the exceptions that are raised below run, all of them subclasses of
\* Exception; ValidationError (pydantic) is also a ValueError
ExceptionClasses == {"TypeError", "ValidationError", "APIError"}
IsValueError(e) == e.cls = "ValidationError"
\* except Exception as e
ExceptException(e) == e.cls \in ExceptionClasses
\* the except clause of think (line 204)
ThinkCatches(e) == ExceptException(e)
\* a narrower except clause for act: except ValueError
ActCatchesValueError(e) == IsValueError(e)
\* the except clause of act (line 240)
ActCatches(e) == ExceptException(e)
\* a narrower except clause: except ValueError
RunCatchesValueError(e) == IsValueError(e)
\* the except clause of run (line 310)
RunCatches(e) == ExceptException(e)

\* ---------------------------------------------------------------- state
VARIABLES
    status,             \* self.status
    current_task,       \* self.current_task: None or the task id it holds
    thought_history,    \* self.thought_history
    tools,              \* self._tools: tool name -> None or the handler
    tool_descriptions,  \* self._tool_descriptions: the names described
    using_llm,          \* self.using_llm
    continue_on_error,  \* self.continue_on_error
    max_iterations,     \* self.max_iterations
    now,                \* datetime.utcnow(), in seconds
    pc,                 \* where each coroutine executing run stands
    thought,            \* run's local transcript, per coroutine
    frame,              \* run's other locals, per coroutine
    runs_started,       \* number of run invocations so far
    reply,              \* what a direct call of a public method is returning
    budget,             \* MicroCEO.budget
    expenses,           \* MicroCEO.expenses: the amounts spent
    task_status,        \* Task.status of each task object
    tasks,              \* TaskEngine.tasks: the ids added
    queue,              \* TaskEngine.queue
    max_concurrent,     \* TaskEngine.max_concurrent
    semaphore,          \* the value of TaskEngine.semaphore
    workers,            \* the coroutines that call execute_task or run_all
    short_term,         \* MemoryManager.short_term
    long_term,          \* MemoryManager.long_term: id -> None or the entry
    disk,               \* the files of storage_path: id -> None or the entry
    feed,               \* which entries the caller adds
    adds,               \* number of add_short_term calls so far
    disk_failures       \* number of disk writes that failed so far

agent_vars == <<status, current_task, thought_history>>
tool_vars == <<tools, tool_descriptions>>
config_vars == <<using_llm, continue_on_error, max_iterations>>
run_vars == <<pc, thought, frame, runs_started>>
ledger_vars == <<budget, expenses>>
\* what the agent's public methods do not touch
engine_vars == <<task_status, tasks, queue, max_concurrent, semaphore, workers>>
memory_vars == <<short_term, long_term, disk, feed, adds, disk_failures>>
side_vars == <<ledger_vars, engine_vars, memory_vars>>
ext_vars == <<reply, side_vars>>
vars == <<agent_vars, tool_vars, config_vars, now, run_vars, ext_vars>>

\* the max_iterations argument of run: omitted or an integer
CapArgs == {[given |-> FALSE, val |-> 0]} \cup [given : {TRUE}, val : -1..MaxCap]

\* locals of run before it is called; arg keeps the max_iterations argument
\* as it was passed, think_calls and act_calls count the calls of think and
\* act this invocation made
NoFrame ==
    [arg |-> [given |-> FALSE, val |-> 0],
     max_iterations |-> 0, context |-> "none", iteration |-> 0,
     thought_process |-> <<>>, tool_name |-> None, tool |-> None,
     action_result |-> NoResult,
     exc |-> NoException, think_calls |-> 0, act_calls |-> 0]

\* where a coroutine is suspended (or not running run at all): only then
\* may another coroutine of the event loop execute
Suspended(q) ==
    \/ pc[q] \in {"idle", "llm", "done", "raised"}
    \/ pc[q] = "tool" /\ IsAsync(frame[q].tool[1])

\* no direct call is handing its result to its caller
CallerIdle == reply = None

Scheduled(p) == CallerIdle /\ \A q \in Procs \ {p} : Suspended(q)
InFlight(q) == pc[q] \notin {"idle", "done", "raised"}

\* BaseAgent.__init__ when it returns; the public attributes max_iterations
\* and continue_on_error are then set by the application
AgentInit ==
    /\ status = "idle"
    /\ current_task = None
    /\ thought_history = <<>>
    /\ tools = [n \in Words |-> None]
    /\ tool_descriptions = <<>>
    /\ using_llm \in BOOLEAN
    /\ continue_on_error \in BOOLEAN
    /\ max_iterations \in 1..MaxCap
    /\ now = 0
    /\ pc = [p \in Procs |-> "idle"]
    /\ thought = [p \in Procs |-> AgentThought(0)]
    /\ frame = [p \in Procs |-> NoFrame]
    /\ runs_started = 0
    /\ reply = None

\* MicroCEO.__init__(initial_budget) (lines 77-79)
LedgerInit(initial_budget) ==
    /\ budget = initial_budget
    /\ expenses = <<>>

\* ------------------------------------------------------------ task engine
TaskIds == {"t1", "t2"}
TaskStatus == {"pending", "running", "completed", "failed", "cancelled"}
Execs == 1..MaxExecs
\* Task.agent_name of each task
AgentOf(t) == IF t = "t1" THEN "a" ELSE "b"
\* the agents mapping that run_all is called with
AgentMaps == {{"a"}, {"a", "b"}}

\* a coroutine that is in neither execute_task nor run_all
IdleWorker == [pc |-> "idle", task |-> "t1", idx |-> 0, agents |-> {}]

\* Task(...) objects with the default status, and TaskEngine.__init__
\* (lines 27, 41-45)
EngineInit(slots) ==
    /\ task_status = [t \in TaskIds |-> "pending"]
    /\ tasks = {}
    /\ queue = <<>>
    /\ max_concurrent = slots
    /\ semaphore = slots
    /\ workers = [e \in Execs |-> IdleWorker]

\* ---------------------------------------------------------------- memory
\* the ids of memory entries
Ids == 0..127
\* the entries a caller adds: the n-th one has id n mod ids and importance
\* 37 n mod levels, so that ids repeat or not and importances tie or not
Feeds == [ids : {3, 128}, levels : {1, 4, 101}]
Entry(n, f) == [id |-> n % f.ids, importance |-> (37 * n) % f.levels, content |-> n]

\* MemoryManager.__init__ (lines 26-30)
MemoryInit(f) ==
    /\ short_term = <<>>
    /\ long_term = [k \in Ids |-> None]
    /\ disk = [k \in Ids |-> None]
    /\ feed = f
    /\ adds = 0
    /\ disk_failures = 0

NoFeed == [ids |-> 128, levels |-> 1]

Init ==
    /\ AgentInit
    /\ LedgerInit(0)
    /\ EngineInit(DefaultMaxConcurrent)
    /\ MemoryInit(NoFeed)

\* the clock advances; the event loop reads it between two coroutine steps.
\* Spec keeps all runs within one clock second and does not take this step.
Tick ==
    /\ now < MaxClock
    /\ CallerIdle
    /\ \A q \in Procs : Suspended(q)
    /\ now' = now + 1
    /\ UNCHANGED <<agent_vars, tool_vars, config_vars, run_vars, ext_vars>>

\* register_tool(name, func, description, parameters)
RegisterTool(name, func) ==
    /\ CallerIdle
    /\ \A q \in Procs : Suspended(q)
    /\ tools' = [tools EXCEPT ![name] = Some(func)]
    /\ tool_descriptions' = Append(tool_descriptions, name)
    /\ UNCHANGED <<agent_vars, config_vars, now, run_vars, ext_vars>>

\* max_iterations = max_iterations or self.max_iterations
EffectiveCap(arg, configured) ==
    IF arg.given /\ arg.val # 0 THEN arg.val ELSE configured

\* run, from its call to the loop (lines 255-271)
RunStart(p, context, arg) ==
    /\ pc[p] = "idle"
    /\ Scheduled(p)
    /\ runs_started < MaxRuns
    /\ runs_started' = runs_started + 1
    /\ thought' = [thought EXCEPT ![p] = AgentThought(now)]
    /\ frame' = [frame EXCEPT ![p] =
                    [NoFrame EXCEPT !.arg = arg,
                                    !.max_iterations = EffectiveCap(arg, max_iterations),
                                    !.context = context]]
    /\ status' = "idle"
    /\ current_task' = Some(now)
    /\ pc' = [pc EXCEPT ![p] = "loop"]
    /\ UNCHANGED <<thought_history, tool_vars, config_vars, now, ext_vars>>

\* a loop that runs once more than range(n)
InRangeInclusive(done, n) == done <= n
\* range(n) has another element after `done` of them were taken
InRange(done, n) == done < n

\* for iteration in range(max_iterations)
LoopNext(p) ==
    /\ pc[p] = "loop"
    /\ Scheduled(p)
    /\ IF InRange(frame[p].iteration, frame[p].max_iterations)
       THEN /\ frame' = [frame EXCEPT ![p].iteration = @ + 1]
            /\ pc' = [pc EXCEPT ![p] = "think"]
       ELSE /\ pc' = [pc EXCEPT ![p] = "exit"]
            /\ UNCHANGED frame
    /\ UNCHANGED <<agent_vars, tool_vars, config_vars, now, thought, runs_started, ext_vars>>

\* json.dumps(context) in think's prompt raises for a value it cannot encode
PromptRaises(context) == context = "unserializable"

\* think, up to the LLM call (lines 177-193, 207-208)
Think(p) ==
    /\ pc[p] = "think"
    /\ Scheduled(p)
    /\ status' = "thinking"
    /\ IF PromptRaises(frame[p].context)
       THEN /\ frame' = [frame EXCEPT ![p].think_calls = @ + 1,
                                      ![p].exc = Exception("TypeError", <<"not", SP, "serializable">>)]
            /\ pc' = [pc EXCEPT ![p] = "except"]
       ELSE IF using_llm
       THEN /\ frame' = [frame EXCEPT ![p].think_calls = @ + 1]
            /\ pc' = [pc EXCEPT ![p] = "llm"]
       ELSE /\ frame' = [frame EXCEPT ![p].think_calls = @ + 1,
                                      ![p].thought_process = NoLLMText]
            /\ pc' = [pc EXCEPT ![p] = "step"]
    /\ UNCHANGED <<current_task, thought_history, tool_vars, config_vars, now, thought, runs_started, ext_vars>>

\* the LLM call returns or raises, and think returns a text (lines 193-206)
LLMReturn(p) ==
    /\ pc[p] = "llm"
    /\ Scheduled(p)
    /\ \/ \E text \in LLMTexts :
             /\ frame' = [frame EXCEPT ![p].thought_process = text]
             /\ pc' = [pc EXCEPT ![p] = "step"]
       \/ \E msg \in LLMErrors :
             IF ThinkCatches(Exception("APIError", msg))
             THEN /\ frame' = [frame EXCEPT ![p].thought_process = LLMFailText(msg)]
                  /\ pc' = [pc EXCEPT ![p] = "step"]
             ELSE /\ frame' = [frame EXCEPT ![p].exc = Exception("APIError", msg)]
                  /\ pc' = [pc EXCEPT ![p] = "except"]
    /\ UNCHANGED <<agent_vars, tool_vars, config_vars, now, thought, runs_started, ext_vars>>

\* a thinking step that goes to a transcript shared by all runs
ThinkingStepShared(p) ==
    /\ pc[p] = "step"
    /\ Scheduled(p)
    /\ thought' = [thought EXCEPT ![1].thought_steps =
                      Append(@, ThoughtStep("thinking", frame[p].thought_process, "0.8", <<>>))]
    /\ LET match == ExtractToolName(frame[p].thought_process)
       IN  IF match # None
           THEN /\ frame' = [frame EXCEPT ![p].tool_name = match]
                /\ pc' = [pc EXCEPT ![p] = "act"]
           ELSE /\ frame' = [frame EXCEPT ![p].tool_name = None,
                                          ![p].action_result = ActionResult(TRUE, Some(NoToolNeeded), None)]
                /\ pc' = [pc EXCEPT ![p] = "result"]
    /\ UNCHANGED <<agent_vars, tool_vars, config_vars, now, runs_started, ext_vars>>

\* the thinking step, then _extract_and_execute_action up to the call of
\* act (lines 277-284, 330-342)
\* a missing trigger reported as a failed action
NoActionFailure == ActionResult(FALSE, None, Some(<<"no", SP, "action">>))
\* the result when the text names no tool (lines 338-342)
NoActionResult == ActionResult(TRUE, Some(NoToolNeeded), None)

ThinkingStep(p) ==
    /\ pc[p] = "step"
    /\ Scheduled(p)
    /\ thought' = [thought EXCEPT ![p].thought_steps =
                      Append(@, ThoughtStep("thinking", frame[p].thought_process, "0.8", <<>>))]
    /\ LET match == ExtractToolName(frame[p].thought_process)
       IN  IF match # None
           THEN /\ frame' = [frame EXCEPT ![p].tool_name = match]
                /\ pc' = [pc EXCEPT ![p] = "act"]
           ELSE /\ frame' = [frame EXCEPT ![p].tool_name = None,
                                          ![p].action_result = NoActionResult]
                /\ pc' = [pc EXCEPT ![p] = "result"]
    /\ UNCHANGED <<agent_vars, tool_vars, config_vars, now, runs_started, ext_vars>>

\* act, up to the call of the handler (lines 216-229)
Act(p) ==
    /\ pc[p] = "act"
    /\ Scheduled(p)
    /\ status' = "acting"
    /\ LET action == frame[p].tool_name[1]
           tool == tools[action]
       IN  IF tool = None
           THEN /\ frame' = [frame EXCEPT ![p].act_calls = @ + 1,
                                          ![p].tool = None,
                                          ![p].action_result =
                                              ActionResult(FALSE, None, Some(NotFoundMessage(action)))]
                /\ pc' = [pc EXCEPT ![p] = "result"]
           ELSE /\ frame' = [frame EXCEPT ![p].act_calls = @ + 1, ![p].tool = tool]
                /\ pc' = [pc EXCEPT ![p] = "tool"]
    /\ UNCHANGED <<current_task, thought_history, tool_vars, config_vars, now, thought, runs_started, ext_vars>>

\* an act that takes a mapping with an "error" key for a failure
ActResultRejectsErrors(o) ==
    IF o.kind = "raise"
    THEN ActionResult(FALSE, None, Some(o.msg))
    ELSE IF o.isdict /\ o.value.error # None
    THEN ActionResult(FALSE, None, o.value.error)
    ELSE ActionResult(TRUE,
                      Some(IF o.isdict THEN o.value ELSE Dict(None, None, Some(o.value), None)),
                      None)

\* act's result for what the handler did (lines 233-246)
ActResult(o) ==
    IF o.kind = "raise"
    THEN ActionResult(FALSE, None, Some(o.msg))
    ELSE ActionResult(TRUE,
                      Some(IF o.isdict THEN o.value ELSE Dict(None, None, Some(o.value), None)),
                      None)

\* the handler returns or raises, and act returns (lines 229-246)
ToolReturn(p) ==
    /\ pc[p] = "tool"
    /\ Scheduled(p)
    /\ \E o \in HandlerOutcomes(frame[p].tool[1], frame[p].thought_process) :
          IF o.kind = "raise" /\ ~ActCatches(Exception(o.cls, o.msg))
          THEN /\ frame' = [frame EXCEPT ![p].exc = Exception(o.cls, o.msg)]
               /\ pc' = [pc EXCEPT ![p] = "except"]
          ELSE /\ frame' = [frame EXCEPT ![p].action_result = ActResult(o)]
               /\ pc' = [pc EXCEPT ![p] = "result"]
    /\ UNCHANGED <<agent_vars, tool_vars, config_vars, now, thought, runs_started, ext_vars>>

\* the step of a successful action (lines 287-292)
ActionStep(data) == ThoughtStep("action", <<"ok">>, "1.0", <<GetTool(data, <<"unknown">>)>>)
\* the step of a failed action (lines 298-302)
ErrorStep(error) == ThoughtStep("error", <<"failed", PUNCT, SP>> \o error, "0.0", <<>>)
\* pydantic accepts the step: tools_used is a List[str]
StepValid(step) == \A i \in 1..Len(step.tools_used) : IsStr(step.tools_used[i])

\* a loop that stops at every failed action
BreakAlways(coe) == TRUE
\* a loop that never stops at a failed action
BreakNever(coe) == FALSE
\* if not self.continue_on_error: ... break
BreakOnFailure(coe) == ~coe

\* a loop body without the break after a successful action
ProcessResultContinues(p) ==
    /\ pc[p] = "result"
    /\ Scheduled(p)
    /\ LET r == frame[p].action_result
       IN  IF r.success
           THEN IF StepValid(ActionStep(r.data[1]))
                THEN /\ thought' = [thought EXCEPT
                                       ![p].thought_steps = Append(@, ActionStep(r.data[1])),
                                       ![p].final_result = r.data,
                                       ![p].status = "idle"]
                     /\ pc' = [pc EXCEPT ![p] = "loop"]
                     /\ UNCHANGED frame
                ELSE /\ frame' = [frame EXCEPT ![p].exc =
                                    Exception("ValidationError", <<"tools_used", SP, "str">>)]
                     /\ pc' = [pc EXCEPT ![p] = "except"]
                     /\ UNCHANGED thought
           ELSE /\ thought' = [thought EXCEPT
                                  ![p].thought_steps = Append(@, ErrorStep(r.error[1])),
                                  ![p].status = IF BreakOnFailure(continue_on_error) THEN "error" ELSE @]
                /\ pc' = [pc EXCEPT ![p] = IF BreakOnFailure(continue_on_error) THEN "exit" ELSE "loop"]
                /\ UNCHANGED frame
    /\ UNCHANGED <<agent_vars, tool_vars, config_vars, now, runs_started, ext_vars>>

\* the rest of the loop body (lines 286-306)
ProcessResult(p) ==
    /\ pc[p] = "result"
    /\ Scheduled(p)
    /\ LET r == frame[p].action_result
       IN  IF r.success
           THEN IF StepValid(ActionStep(r.data[1]))
                THEN /\ thought' = [thought EXCEPT
                                       ![p].thought_steps = Append(@, ActionStep(r.data[1])),
                                       ![p].final_result = r.data,
                                       ![p].status = "idle"]
                     /\ pc' = [pc EXCEPT ![p] = "exit"]
                     /\ UNCHANGED frame
                ELSE /\ frame' = [frame EXCEPT ![p].exc =
                                    Exception("ValidationError", <<"tools_used", SP, "str">>)]
                     /\ pc' = [pc EXCEPT ![p] = "except"]
                     /\ UNCHANGED thought
           ELSE /\ thought' = [thought EXCEPT
                                  ![p].thought_steps = Append(@, ErrorStep(r.error[1])),
                                  ![p].status = IF BreakOnFailure(continue_on_error) THEN "error" ELSE @]
                /\ pc' = [pc EXCEPT ![p] = IF BreakOnFailure(continue_on_error) THEN "exit" ELSE "loop"]
                /\ UNCHANGED frame
    /\ UNCHANGED <<agent_vars, tool_vars, config_vars, now, runs_started, ext_vars>>

\* a loop exit that leaves completed_at unset
LoopExitNoStamp(p) ==
    /\ pc[p] = "exit"
    /\ Scheduled(p)
    /\ pc' = [pc EXCEPT ![p] = "final"]
    /\ UNCHANGED <<agent_vars, tool_vars, config_vars, now, thought, frame, runs_started, ext_vars>>

\* after the loop: thought.completed_at = datetime.utcnow() (line 308)
LoopExit(p) ==
    /\ pc[p] = "exit"
    /\ Scheduled(p)
    /\ thought' = [thought EXCEPT ![p].completed_at = Some(now)]
    /\ pc' = [pc EXCEPT ![p] = "final"]
    /\ UNCHANGED <<agent_vars, tool_vars, config_vars, now, frame, runs_started, ext_vars>>

\* an error step that does not carry the message
ExceptionStepFixed(e) == ThoughtStep("error", <<"error">>, "0.0", <<>>)
\* the step of a caught exception: content = str(e) (lines 313-317)
ExceptionStep(e) == ThoughtStep("error", e.msg, "0.0", <<>>)

\* except Exception as e (lines 310-317); any other exception leaves run
Except(p) ==
    /\ pc[p] = "except"
    /\ Scheduled(p)
    /\ IF RunCatches(frame[p].exc)
       THEN /\ thought' = [thought EXCEPT
                              ![p].status = "error",
                              ![p].thought_steps = Append(@, ExceptionStep(frame[p].exc))]
            /\ pc' = [pc EXCEPT ![p] = "final"]
       ELSE /\ pc' = [pc EXCEPT ![p] = "raised"]
            /\ UNCHANGED thought
    /\ UNCHANGED <<agent_vars, tool_vars, config_vars, now, frame, runs_started, ext_vars>>

\* an end of run that stores completed transcripts only
FinalizeCompletedOnly(p) ==
    /\ pc[p] = "final"
    /\ Scheduled(p)
    /\ thought_history' = IF thought[p].completed_at # None
                          THEN Append(thought_history, thought[p])
                          ELSE thought_history
    /\ status' = "idle"
    /\ current_task' = None
    /\ pc' = [pc EXCEPT ![p] = "done"]
    /\ UNCHANGED <<tool_vars, config_vars, now, thought, frame, runs_started, ext_vars>>

\* an end of run that keeps the newest transcript only
FinalizeKeepLast(p) ==
    /\ pc[p] = "final"
    /\ Scheduled(p)
    /\ thought_history' = <<thought[p]>>
    /\ status' = "idle"
    /\ current_task' = None
    /\ pc' = [pc EXCEPT ![p] = "done"]
    /\ UNCHANGED <<tool_vars, config_vars, now, thought, frame, runs_started, ext_vars>>

\* an end of run that leaves status and current_task to a run still in
\* flight
FinalizeIfAlone(p) ==
    /\ pc[p] = "final"
    /\ Scheduled(p)
    /\ thought_history' = Append(thought_history, thought[p])
    /\ IF \E q \in Procs \ {p} : InFlight(q)
       THEN UNCHANGED <<status, current_task>>
       ELSE status' = "idle" /\ current_task' = None
    /\ pc' = [pc EXCEPT ![p] = "done"]
    /\ UNCHANGED <<tool_vars, config_vars, now, thought, frame, runs_started, ext_vars>>

\* an end of run that leaves the agent's status as it is
FinalizeNoReset(p) ==
    /\ pc[p] = "final"
    /\ Scheduled(p)
    /\ thought_history' = Append(thought_history, thought[p])
    /\ current_task' = None
    /\ pc' = [pc EXCEPT ![p] = "done"]
    /\ UNCHANGED <<status, tool_vars, config_vars, now, thought, frame, runs_started, ext_vars>>

\* the end of run (lines 319-323): the transcript is returned
Finalize(p) ==
    /\ pc[p] = "final"
    /\ Scheduled(p)
    /\ thought_history' = Append(thought_history, thought[p])
    /\ status' = "idle"
    /\ current_task' = None
    /\ pc' = [pc EXCEPT ![p] = "done"]
    /\ UNCHANGED <<tool_vars, config_vars, now, thought, frame, runs_started, ext_vars>>

\* the caller has the transcript (or the exception); the coroutine is free
\* for the next call
Returned(p) ==
    /\ pc[p] \in {"done", "raised"}
    /\ Scheduled(p)
    /\ pc' = [pc EXCEPT ![p] = "idle"]
    /\ thought' = [thought EXCEPT ![p] = AgentThought(0)]
    /\ frame' = [frame EXCEPT ![p] = NoFrame]
    /\ UNCHANGED <<agent_vars, tool_vars, config_vars, now, runs_started, ext_vars>>

RunStep(p) ==
    \/ LoopNext(p)
    \/ Think(p)
    \/ LLMReturn(p)
    \/ ThinkingStep(p)
    \/ Act(p)
    \/ ToolReturn(p)
    \/ ProcessResult(p)
    \/ LoopExit(p)
    \/ Except(p)
    \/ Finalize(p)
    \/ Returned(p)

\* one caller at a time: run is called only when no run is in flight, by
\* the first coroutine
SequentialStart ==
    /\ \A q \in Procs : pc[q] = "idle"
    /\ \E context \in Contexts, arg \in CapArgs : RunStart(1, context, arg)

\* the agents register their tools when they are constructed, before the
\* first run
RegisterAtConstruction ==
    /\ Len(tool_descriptions) < MaxRegs
    /\ \A q \in Procs : pc[q] = "idle"
    /\ runs_started = 0
    /\ \E name \in ToolNames, func \in Handlers : RegisterTool(name, func)

Next ==
    \/ RegisterAtConstruction
    \/ SequentialStart
    \/ \E p \in Procs : RunStep(p)

\* sequential runs within one clock second
Spec == Init /\ [][Next]_vars

\* runs in any clock second
SpecClock == Init /\ [][Next \/ Tick]_vars

\* callers that do not wait for each other: run is called while another
\* run is suspended (default cap, no context)
OverlapStart ==
    \E p \in Procs : RunStart(p, "none", [given |-> FALSE, val |-> 0])

ConcurrentNext ==
    \/ RegisterAtConstruction
    \/ OverlapStart
    \/ \E p \in Procs : RunStep(p)
    \/ Tick

\* overlapping runs on one agent
SpecConcurrent == Init /\ [][ConcurrentNext]_vars

\* ---------------------------------------------------------- direct calls
\* the callers of the public methods other than run: a call is one step,
\* reply holds what it returns (or raises) until the caller has taken it
AgentName == "agent"
Model == "gpt"

\* the system_prompt argument of the constructor: omitted, empty or a text
SystemPrompts == {None, Some(<<>>), Some(<<"w">>)}
\* `system_prompt or ...` takes the right-hand side for None and for ""
Falsy(system_prompt) == system_prompt = None \/ system_prompt[1] = <<>>

\* _default_system_prompt (lines 125-133): the f-string reads the name
\* `description`, which is neither a local nor a global of the module
DefaultSystemPrompt == Raise("NameError", <<"description">>)

\* get_status (lines 344-354) of an agent in the given state
StatusOf(st, tl, history, llm) ==
    [name |-> AgentName,
     status |-> st,
     tools_count |-> Cardinality({n \in Words : tl[n] # None}),
     history_count |-> Len(history),
     using_llm |-> llm,
     model |-> IF llm THEN Some(Model) ELSE None]

StatusReport == StatusOf(status, tools, thought_history, using_llm)

\* the prompt think builds (lines 179-189): the context and the tool
\* descriptors, as they are
Prompt(context) == [context |-> context, tools |-> tool_descriptions]

ActReply(action, result, raised, invoked) ==
    [op |-> "act", action |-> action, result |-> result, raised |-> raised, invoked |-> invoked]
ThinkReply(prompt, text, raised) ==
    [op |-> "think", prompt |-> prompt, text |-> text, raised |-> raised]
StatusReply(report) == [op |-> "get_status", report |-> report]
ClearReply == [op |-> "clear_history"]
NewReply(system_prompt, api_key, raised, report) ==
    [op |-> "new", system_prompt |-> system_prompt, api_key |-> api_key,
     raised |-> raised, report |-> report]

\* the caller takes what the call returned
TakeReply ==
    /\ reply # None
    /\ reply' = None
    /\ UNCHANGED <<agent_vars, tool_vars, config_vars, now, run_vars, side_vars>>

DirectCall ==
    /\ CallerIdle
    /\ \A q \in Procs : Suspended(q)

\* await agent.act(action, params), called directly (lines 210-246)
ActCall(action) ==
    /\ DirectCall
    /\ status' = "acting"
    /\ LET tool == tools[action]
       IN  IF tool = None
           THEN reply' = Some(ActReply(action,
                                       ActionResult(FALSE, None, Some(NotFoundMessage(action))),
                                       NoException, None))
           ELSE \E o \in HandlerOutcomes(tool[1], <<"w">>) :
                   IF o.kind = "raise" /\ ~ActCatches(Exception(o.cls, o.msg))
                   THEN reply' = Some(ActReply(action, NoResult, Exception(o.cls, o.msg), tool))
                   ELSE reply' = Some(ActReply(action, ActResult(o), NoException, tool))
    /\ UNCHANGED <<current_task, thought_history, tool_vars, config_vars, now, run_vars, side_vars>>

\* await agent.think(task, context), called directly (lines 171-208)
ThinkCall(context) ==
    /\ DirectCall
    /\ status' = "thinking"
    /\ IF PromptRaises(context)
       THEN reply' = Some(ThinkReply(None, None,
                                     Exception("TypeError", <<"not", SP, "serializable">>)))
       ELSE IF using_llm
       THEN \/ \E text \in LLMTexts :
                  reply' = Some(ThinkReply(Some(Prompt(context)), Some(text), NoException))
            \/ \E msg \in LLMErrors :
                  IF ThinkCatches(Exception("APIError", msg))
                  THEN reply' = Some(ThinkReply(Some(Prompt(context)), Some(LLMFailText(msg)),
                                                NoException))
                  ELSE reply' = Some(ThinkReply(Some(Prompt(context)), None,
                                                Exception("APIError", msg)))
       ELSE reply' = Some(ThinkReply(None, Some(NoLLMText), NoException))
    /\ UNCHANGED <<current_task, thought_history, tool_vars, config_vars, now, run_vars, side_vars>>

\* a get_status that also resets the agent's status
GetStatusResetting ==
    /\ DirectCall
    /\ reply' = Some(StatusReply(StatusReport))
    /\ status' = "idle"
    /\ UNCHANGED <<current_task, thought_history, tool_vars, config_vars, now, run_vars, side_vars>>

\* agent.get_status() (lines 344-354)
GetStatus ==
    /\ DirectCall
    /\ reply' = Some(StatusReply(StatusReport))
    /\ UNCHANGED <<agent_vars, tool_vars, config_vars, now, run_vars, side_vars>>

\* agent.clear_history() (lines 356-359)
ClearHistory ==
    /\ DirectCall
    /\ thought_history' = <<>>
    /\ reply' = Some(ClearReply)
    /\ UNCHANGED <<status, current_task, tool_vars, config_vars, now, run_vars, side_vars>>

\* BaseAgent.__init__ (lines 87-123) for another agent object, built from
\* name, role, description and the given system_prompt, with or without an
\* API key in the environment; then get_status on the new object
New(system_prompt, api_key) ==
    /\ DirectCall
    /\ LET prompt == IF Falsy(system_prompt) THEN DefaultSystemPrompt
                     ELSE Return(system_prompt[1], FALSE)
       IN  IF prompt.kind = "raise"
           THEN reply' = Some(NewReply(system_prompt, api_key,
                                       Exception(prompt.cls, prompt.msg), None))
           ELSE reply' = Some(NewReply(system_prompt, api_key, NoException,
                                       Some(StatusOf("idle", [n \in Words |-> None], <<>>, api_key))))
    /\ UNCHANGED <<agent_vars, tool_vars, config_vars, now, run_vars, side_vars>>

\* register_tool at any time, as long as nothing is registered yet
RegisterLate ==
    /\ Len(tool_descriptions) < MaxRegs
    /\ \E name \in ToolNames, func \in Handlers : RegisterTool(name, func)

\* a caller that runs the agent with the default cap and no context
OpsStart ==
    /\ \A q \in Procs : pc[q] = "idle"
    /\ RunStart(1, "none", [given |-> FALSE, val |-> 0])

OpsNext ==
    \/ RegisterLate
    \/ OpsStart
    \/ \E p \in Procs : RunStep(p)
    \/ \E action \in Words : ActCall(action)
    \/ \E context \in Contexts : ThinkCall(context)
    \/ GetStatus
    \/ ClearHistory
    \/ \E system_prompt \in SystemPrompts, api_key \in BOOLEAN : New(system_prompt, api_key)
    \/ TakeReply

\* the public operations of an agent, in any order
SpecOps == Init /\ [][OpsNext]_vars

\* register_tool calls that may repeat a name, and what act, think and
\* get_status then see
RegistryNext ==
    \/ /\ Len(tool_descriptions) < MaxDescs
       /\ \E name \in ToolNames, func \in Handlers : RegisterTool(name, func)
    \/ \E action \in ToolNames : ActCall(action)
    \/ ThinkCall("none")
    \/ GetStatus
    \/ TakeReply

SpecRegistry == Init /\ [][RegistryNext]_vars

\* ------------------------------------------------------------ history API
\* seq[start:] of Python: a negative start counts from the end, and a start
\* beyond either end is clipped
SliceFrom(seq, start) ==
    LET from == IF start < 0
                THEN (IF Len(seq) + start < 0 THEN 0 ELSE Len(seq) + start)
                ELSE (IF start > Len(seq) THEN Len(seq) ELSE start)
    IN  SubSeq(seq, from + 1, Len(seq))

HistoryReply(limit, history) ==
    [op |-> "history", limit |-> limit, history_count |-> Len(history), history |-> history]

\* GET /agent/{agent_name}/history?limit= for a known agent (lines 216-229)
GetAgentHistory(limit) ==
    /\ DirectCall
    /\ reply' = Some(HistoryReply(limit, SliceFrom(thought_history, -limit)))
    /\ UNCHANGED <<agent_vars, tool_vars, config_vars, now, run_vars, side_vars>>

ApiNext ==
    \/ RegisterAtConstruction
    \/ OpsStart
    \/ \E p \in Procs : RunStep(p)
    \/ \E limit \in -1..MaxLimit : GetAgentHistory(limit)
    \/ TakeReply

\* runs through the API, and requests for the history
SpecApi == Init /\ [][ApiNext]_vars

\* ---------------------------------------------------------- budget ledger
\* the amount argument of the handler: omitted, a number, or a value that
\* Decimal(str(amount)) rejects (decimal.InvalidOperation)
Amounts ==
    {[kind |-> "none", val |-> 0], [kind |-> "invalid", val |-> 0]}
        \cup [kind : {"num"}, val : -1..MaxAmount]

Payload(error, action, new_balance) ==
    [error |-> error, action |-> action, new_balance |-> new_balance]
BudgetReply(action, amount, payload, raised) ==
    [op |-> "manage_budget", action |-> action, amount |-> amount,
     payload |-> payload, raised |-> raised]

AmountRequired == <<"amount", SP, "required">>
Insufficient == <<"insufficient", SP, "budget">>

\* a check that lets every amount through
ExceedsNever(amount, balance) == FALSE
\* Decimal(str(amount)) > self.budget (line 229)
Exceeds(amount, balance) == amount > balance

\* MicroCEO._manage_budget("spend", amount, ...) (lines 225-244)
Spend(amount) ==
    /\ CallerIdle
    /\ IF amount.kind = "none"
       THEN /\ reply' = Some(BudgetReply("spend", amount,
                                         Payload(Some(AmountRequired), None, None), NoException))
            /\ UNCHANGED <<budget, expenses>>
       ELSE IF amount.kind = "invalid"
       THEN /\ reply' = Some(BudgetReply("spend", amount, Payload(None, None, None),
                                         Exception("InvalidOperation", <<"decimal">>)))
            /\ UNCHANGED <<budget, expenses>>
       ELSE IF Exceeds(amount.val, budget)
       THEN /\ reply' = Some(BudgetReply("spend", amount,
                                         Payload(Some(Insufficient), None, None), NoException))
            /\ UNCHANGED <<budget, expenses>>
       ELSE /\ Len(expenses) < MaxSpends
            /\ budget' = budget - amount.val
            /\ expenses' = Append(expenses, amount.val)
            /\ reply' = Some(BudgetReply("spend", amount,
                                         Payload(None, Some("spent"), Some(budget - amount.val)),
                                         NoException))
    /\ UNCHANGED <<agent_vars, tool_vars, config_vars, now, run_vars, engine_vars, memory_vars>>

\* an agent constructed with a budget that is not negative
BudgetInit ==
    /\ AgentInit
    /\ \E initial_budget \in 0..MaxBudget : LedgerInit(initial_budget)
    /\ EngineInit(DefaultMaxConcurrent)
    /\ MemoryInit(NoFeed)

BudgetNext ==
    \/ \E amount \in Amounts : Spend(amount)
    \/ TakeReply

\* spend calls on the ledger
SpecBudget == BudgetInit /\ [][BudgetNext]_vars

UnknownAction == <<"unknown", SP, "action">>

\* MicroCEO._manage_budget("allocate", amount) (lines 212-223)
Allocate(amount) ==
    /\ CallerIdle
    /\ IF amount.kind = "none"
       THEN /\ reply' = Some(BudgetReply("allocate", amount,
                                         Payload(Some(AmountRequired), None, None), NoException))
            /\ UNCHANGED <<budget, expenses>>
       ELSE IF amount.kind = "invalid"
       THEN /\ reply' = Some(BudgetReply("allocate", amount, Payload(None, None, None),
                                         Exception("InvalidOperation", <<"decimal">>)))
            /\ UNCHANGED <<budget, expenses>>
       ELSE /\ budget + amount.val <= MaxBalance
            /\ budget + amount.val >= -MaxBalance
            /\ budget' = budget + amount.val
            /\ reply' = Some(BudgetReply("allocate", amount,
                                         Payload(None, Some("allocated"), Some(budget + amount.val)),
                                         NoException))
            /\ UNCHANGED expenses
    /\ UNCHANGED <<agent_vars, tool_vars, config_vars, now, run_vars, engine_vars, memory_vars>>

\* sum(e["amount"] for e in self.expenses)
RECURSIVE Sum(_)
Sum(seq) == IF seq = <<>> THEN 0 ELSE seq[1] + Sum(Tail(seq))

ReportPayload(current_balance, total_expenses, transaction_count) ==
    [error |-> None, current_balance |-> current_balance,
     total_expenses |-> total_expenses, transaction_count |-> transaction_count]

\* MicroCEO._manage_budget("report") (lines 246-253)
Report ==
    /\ CallerIdle
    /\ reply' = Some(BudgetReply("report", [kind |-> "none", val |-> 0],
                                 ReportPayload(budget, Sum(expenses), Len(expenses)),
                                 NoException))
    /\ UNCHANGED <<agent_vars, tool_vars, config_vars, now, run_vars, budget, expenses, engine_vars, memory_vars>>

\* MicroCEO._manage_budget with any other action (line 255)
Unknown(amount) ==
    /\ CallerIdle
    /\ reply' = Some(BudgetReply("other", amount,
                                 Payload(Some(UnknownAction), None, None), NoException))
    /\ UNCHANGED <<agent_vars, tool_vars, config_vars, now, run_vars, budget, expenses, engine_vars, memory_vars>>

LedgerNext ==
    \/ \E amount \in Amounts : Spend(amount)
    \/ \E amount \in Amounts : Allocate(amount)
    \/ Report
    \/ \E amount \in Amounts : Unknown(amount)
    \/ TakeReply

\* calls of the budget handler with every action
SpecLedger == BudgetInit /\ [][LedgerNext]_vars

\* ------------------------------------------------------- task engine calls
base_vars == <<agent_vars, tool_vars, config_vars, now, run_vars, reply, ledger_vars, memory_vars>>

\* add_task(task) (lines 47-50)
AddTask(t) ==
    /\ Len(queue) < MaxQueue
    /\ tasks' = tasks \cup {t}
    /\ queue' = Append(queue, t)
    /\ UNCHANGED <<base_vars, task_status, max_concurrent, semaphore, workers>>

\* execute_task(task, agent) is called (line 62)
ExecuteTask(e, t) ==
    /\ workers[e].pc = "idle"
    /\ workers' = [workers EXCEPT ![e] = [IdleWorker EXCEPT !.pc = "acquire", !.task = t]]
    /\ UNCHANGED <<base_vars, task_status, tasks, queue, max_concurrent, semaphore>>

\* run_all(agents) is called (line 82)
RunAll(e, agents) ==
    /\ workers[e].pc = "idle"
    /\ workers' = [workers EXCEPT ![e] = [IdleWorker EXCEPT !.pc = "walk", !.idx = 1,
                                                            !.agents = agents]]
    /\ UNCHANGED <<base_vars, task_status, tasks, queue, max_concurrent, semaphore>>

\* for task in self.queue: agent = agents.get(task.agent_name); if agent:
\* execute_task (lines 84-87)
WalkStep(e) ==
    /\ workers[e].pc = "walk"
    /\ LET w == workers[e]
       IN  IF w.idx > Len(queue)
           THEN workers' = [workers EXCEPT ![e] = IdleWorker]
           ELSE IF AgentOf(queue[w.idx]) \in w.agents
           THEN workers' = [workers EXCEPT ![e].pc = "acquire", ![e].task = queue[w.idx]]
           ELSE workers' = [workers EXCEPT ![e].idx = @ + 1]
    /\ UNCHANGED <<base_vars, task_status, tasks, queue, max_concurrent, semaphore>>

\* a semaphore that never blocks
CanAcquireAlways(value) == TRUE
\* asyncio.Semaphore.acquire returns when the value is positive
CanAcquire(value) == value > 0

\* async with self.semaphore: task.status = RUNNING (lines 64-66)
Acquire(e) ==
    /\ workers[e].pc = "acquire"
    /\ CanAcquire(semaphore)
    /\ semaphore' = semaphore - 1
    /\ task_status' = [task_status EXCEPT ![workers[e].task] = "running"]
    /\ workers' = [workers EXCEPT ![e].pc = "running"]
    /\ UNCHANGED <<base_vars, tasks, queue, max_concurrent>>

\* agent.run returns, or the call or model_dump raises; the status is set
\* and the semaphore released (lines 69-80)
Complete(e) ==
    /\ workers[e].pc = "running"
    /\ \E outcome \in {"completed", "failed"} :
          task_status' = [task_status EXCEPT ![workers[e].task] = outcome]
    /\ semaphore' = semaphore + 1
    /\ workers' = [workers EXCEPT ![e] =
                      IF workers[e].idx = 0 THEN IdleWorker
                      ELSE [workers[e] EXCEPT !.pc = "walk", !.idx = @ + 1]]
    /\ UNCHANGED <<base_vars, tasks, queue, max_concurrent>>

\* an engine of any size, and an agent that the engine does not look into
EngineSpecInit ==
    /\ AgentInit
    /\ using_llm /\ continue_on_error /\ max_iterations = 1
    /\ LedgerInit(0)
    /\ \E slots \in 1..MaxSlots : EngineInit(slots)
    /\ MemoryInit(NoFeed)

EngineNext ==
    \/ \E t \in TaskIds : AddTask(t)
    \/ \E e \in Execs, t \in TaskIds : ExecuteTask(e, t)
    \/ \E e \in Execs, agents \in AgentMaps : RunAll(e, agents)
    \/ \E e \in Execs : WalkStep(e)
    \/ \E e \in Execs : Acquire(e)
    \/ \E e \in Execs : Complete(e)

\* the calls of a TaskEngine
SpecEngine == EngineSpecInit /\ [][EngineNext]_vars

\* ------------------------------------------------------- memory manager
AddReply(entry, raised) == [op |-> "add_short_term", entry |-> entry, raised |-> raised]

\* a sort without reverse = True
LessImportant(a, b) == a.importance < b.importance
\* sorted(..., key = importance, reverse = True) puts a before b
MoreImportant(a, b) == a.importance > b.importance

\* sorted(entries, key = importance, reverse = True)[:k]: the sort is
\* stable, entries of equal importance keep their order
RECURSIVE Top(_, _, _)
Top(entries, taken, k) ==
    LET rest == (1..Len(entries)) \ taken
    IN  IF k = 0 \/ rest = {}
        THEN <<>>
        ELSE LET best == CHOOSE i \in rest :
                             \A j \in rest \ {i} :
                                 \/ MoreImportant(entries[i], entries[j])
                                 \/ ~MoreImportant(entries[j], entries[i]) /\ i < j
             IN  <<entries[best]>> \o Top(entries, taken \cup {best}, k - 1)

\* mapping[entry.id] = entry for the first n of the entries, in their order
Store(mapping, entries, n) ==
    [k \in Ids |->
        LET hits == {i \in 1..n : entries[i].id = k}
        IN  IF hits = {} THEN mapping[k]
            ELSE Some(entries[CHOOSE i \in hits : \A j \in hits : j <= i])]

\* len(self.short_term) > 100 (line 35)
OverLimit(n) == n > ShortTermLimit

\* add_short_term(entry) (lines 32-36) with _consolidate_short_term (lines
\* 51-57), add_long_term (lines 38-41) and _save_to_disk (lines 59-62); a
\* write to the disk may raise OSError, which leaves the call
AddShortTerm ==
    /\ CallerIdle
    /\ adds < MaxAdds
    /\ adds' = adds + 1
    /\ LET entry == Entry(adds + 1, feed)
           appended == Append(short_term, entry)
           important == Top(appended, {}, Consolidated)
       IN  IF ~OverLimit(Len(appended))
           THEN /\ short_term' = appended
                /\ reply' = Some(AddReply(entry, NoException))
                /\ UNCHANGED <<long_term, disk, disk_failures>>
           ELSE \/ /\ long_term' = Store(long_term, important, Len(important))
                   /\ disk' = Store(disk, important, Len(important))
                   /\ short_term' = <<>>
                   /\ reply' = Some(AddReply(entry, NoException))
                   /\ UNCHANGED disk_failures
                \/ /\ disk_failures < MaxDiskFailures
                   /\ disk_failures' = disk_failures + 1
                   /\ \E i \in 1..Len(important) :
                         /\ long_term' = Store(long_term, important, i)
                         /\ disk' = Store(disk, important, i - 1)
                   /\ short_term' = appended
                   /\ reply' = Some(AddReply(entry, Exception("OSError", <<"write">>)))
    /\ UNCHANGED <<agent_vars, tool_vars, config_vars, now, run_vars, ledger_vars, engine_vars, feed>>

\* a memory manager that is fed one of the entry sequences
MemorySpecInit ==
    /\ AgentInit
    /\ using_llm /\ continue_on_error /\ max_iterations = 1
    /\ LedgerInit(0)
    /\ EngineInit(DefaultMaxConcurrent)
    /\ \E f \in Feeds : MemoryInit(f)

MemoryNext ==
    \/ AddShortTerm
    \/ TakeReply

\* add_short_term calls on a MemoryManager
SpecMemory == MemorySpecInit /\ [][MemoryNext]_vars

\* ================================================================ claims
Last(seq) == seq[Len(seq)]
StepTypes(t) == [i \in 1..Len(t.thought_steps) |-> t.thought_steps[i].step_type]
\* thinking and error steps alternate over the first n steps
Alternates(t, n) ==
    \A i \in 1..n : t.thought_steps[i].step_type = IF i % 2 = 1 THEN "thinking" ELSE "error"
HasTrigger(text) == \E i \in 1..Len(text) : text[i] = TRIG
\* run has returned its transcript to the caller
Done(p) == pc[p] = "done"
\* the last action of the run failed (act returned success = false)
LastActionFailed(p) ==
    /\ frame[p].think_calls >= 1
    /\ frame[p].exc = NoException
    /\ ~frame[p].action_result.success

\* C1: run never raises, whatever think, the LLM call and the handlers do;
\* it returns a transcript, and a caught exception or a failed last action
\* shows in the transcript: status error and a last step of type error for
\* an exception, a last step of type error holding the message for a failure.
RunNeverRaises ==
    \A p \in Procs :
        /\ pc[p] # "raised"
        /\ Done(p) =>
              /\ Len(thought_history) >= 1 /\ Last(thought_history) = thought[p]
              /\ frame[p].exc # NoException =>
                    /\ thought[p].status = "error"
                    /\ Last(thought[p].thought_steps).step_type = "error"
              /\ LastActionFailed(p) =>
                    Last(thought[p].thought_steps) = ErrorStep(frame[p].action_result.error[1])

\* C1 witness: a handler raised TypeError and run returned its transcript
HandlerRaisedRunReturned ==
    \E p \in Procs :
        /\ Done(p)
        /\ frame[p].act_calls = 1
        /\ frame[p].action_result.error = Some(<<"unexpected", SP, "query">>)
        /\ thought[p].status = "error"

\* C2: when run has returned after an action that succeeded, final_result
\* is that action's data and the transcript's status is idle.
SuccessGivesFinalResult ==
    \A p \in Procs :
        (Done(p) /\ frame[p].think_calls >= 1 /\ frame[p].action_result.success) =>
            /\ thought[p].final_result = frame[p].action_result.data
            /\ thought[p].status = "idle"

\* C3: when the first think output holds no trigger phrase, no tool is
\* called and there is one think call; the returned transcript has the steps
\* thinking, action, the 'no tool needed' message as final_result and status
\* idle.
NoTriggerEndsRun ==
    \A p \in Procs :
        (/\ Len(thought[p].thought_steps) >= 1
         /\ thought[p].thought_steps[1].step_type = "thinking"
         /\ ~HasTrigger(thought[p].thought_steps[1].content)) =>
            /\ frame[p].act_calls = 0
            /\ frame[p].think_calls = 1
            /\ Done(p) =>
                  /\ StepTypes(thought[p]) = <<"thinking", "action">>
                  /\ thought[p].final_result = Some(NoToolNeeded)
                  /\ thought[p].status = "idle"

\* C3 witness: the LLM call failed with a plain message, run has returned
NoTriggerRunReturned ==
    \E p \in Procs :
        /\ Done(p)
        /\ using_llm
        /\ Len(thought[p].thought_steps) = 2
        /\ thought[p].thought_steps[1].content = LLMFailText(<<"w">>)
        /\ thought[p].final_result = Some(NoToolNeeded)

\* C4 as stated: every returned transcript has between 1 and
\* 2 x maxIterations steps, maxIterations being the cap in force.
StepsBetweenOneAndTwiceCap ==
    \A p \in Procs :
        Done(p) =>
            /\ Len(thought[p].thought_steps) >= 1
            /\ Len(thought[p].thought_steps) <= 2 * frame[p].max_iterations

\* C4 amended: with a cap in force of at least 1 the returned transcript has
\* between 1 and 2 x maxIterations steps; with a negative cap it has none.
StepsBoundedForPositiveCap ==
    \A p \in Procs :
        Done(p) =>
            IF frame[p].max_iterations >= 1
            THEN /\ Len(thought[p].thought_steps) >= 1
                 /\ Len(thought[p].thought_steps) <= 2 * frame[p].max_iterations
            ELSE /\ frame[p].max_iterations < 0
                 /\ Len(thought[p].thought_steps) = 0

\* C4 witness: a run under cap 2 returned a transcript of 4 steps
FourStepsUnderCapTwo ==
    \E p \in Procs :
        Done(p) /\ frame[p].max_iterations = 2 /\ Len(thought[p].thought_steps) = 4

\* C5: run makes at most cap think calls, cap being the argument when one
\* is passed (0 included) and the configured max_iterations when it is not.
ThinkCallsAtMostCap ==
    \A p \in Procs :
        (pc[p] # "idle" /\ (frame[p].arg.given => frame[p].arg.val >= 0)) =>
            frame[p].think_calls <=
                (IF frame[p].arg.given THEN frame[p].arg.val ELSE max_iterations)

\* C6: with continue_on_error false a failed action ends the run after one
\* think call and one act call, with steps thinking, error, status error and
\* no final_result; with continue_on_error true a run that returned after a
\* failed action has used its whole budget.
FailureEndsRunUnlessContinue ==
    \A p \in Procs :
        (Done(p) /\ LastActionFailed(p)) =>
            IF continue_on_error
            THEN frame[p].think_calls = frame[p].max_iterations
            ELSE /\ frame[p].think_calls = 1
                 /\ frame[p].act_calls = 1
                 /\ StepTypes(thought[p]) = <<"thinking", "error">>
                 /\ thought[p].status = "error"
                 /\ thought[p].final_result = None

\* C6 witness: continue_on_error is false, budget 2, run returned after the
\* first iteration's failed action
StoppedAtFirstFailure ==
    \E p \in Procs :
        /\ Done(p) /\ LastActionFailed(p)
        /\ ~continue_on_error
        /\ frame[p].max_iterations = 2
        /\ frame[p].think_calls = 1

\* C7: with continue_on_error true and every iteration's action failing,
\* run makes maxIterations think calls and returns 2 x maxIterations steps,
\* thinking and error in turn, completed_at set, no final_result, status idle.
ExhaustedRunIsIdle ==
    \A p \in Procs :
        (Done(p) /\ LastActionFailed(p) /\ continue_on_error) =>
            /\ frame[p].think_calls = frame[p].max_iterations
            /\ Len(thought[p].thought_steps) = 2 * frame[p].max_iterations
            /\ Alternates(thought[p], Len(thought[p].thought_steps))
            /\ thought[p].completed_at # None
            /\ thought[p].final_result = None
            /\ thought[p].status = "idle"

\* C7 witness: two iterations failed, one by a missing tool and one by a
\* handler that raised, and run returned
TwoFailuresRunReturned ==
    \E p \in Procs :
        /\ Done(p) /\ LastActionFailed(p) /\ continue_on_error
        /\ frame[p].max_iterations = 2
        /\ frame[p].act_calls = 2
        /\ \E i, j \in {2, 4} :
              /\ thought[p].thought_steps[i].content = ErrorStep(<<"unexpected", SP, "query">>).content
              /\ thought[p].thought_steps[j].content = ErrorStep(NotFoundMessage("calc")).content

\* C8: an exception that escapes think or the step processing stops the
\* loop: no iteration follows, run does not raise, the transcript's status is
\* error, its last step is an error step holding the exception's message,
\* the steps before it are those of the iterations so far, and the
\* transcript is appended to thought_history once.
ExceptionEndsRun ==
    \A p \in Procs :
        frame[p].exc # NoException =>
            /\ pc[p] \in {"except", "final", "done"}
            /\ pc[p] \in {"final", "done"} =>
                  LET steps == thought[p].thought_steps
                      before == 2 * (frame[p].think_calls - 1)
                  IN  /\ thought[p].status = "error"
                      /\ Last(steps).step_type = "error"
                      /\ Last(steps).content = frame[p].exc.msg
                      /\ Alternates(thought[p], before)
                      /\ IF frame[p].exc.cls = "ValidationError"
                         THEN /\ Len(steps) = before + 2
                              /\ steps[before + 1] =
                                    ThoughtStep("thinking", frame[p].thought_process, "0.8", <<>>)
                         ELSE Len(steps) = before + 1
            /\ Done(p) =>
                  /\ Last(thought_history) = thought[p]
                  /\ Len(thought_history) = runs_started

\* C8 witness: the second iteration's step processing raised after a first
\* iteration that failed, and run returned
SecondIterationRaised ==
    \E p \in Procs :
        /\ Done(p)
        /\ frame[p].exc.cls = "ValidationError"
        /\ frame[p].think_calls = 2
        /\ Len(thought[p].thought_steps) = 4

\* C9 as stated: completed_at is set exactly when the loop has exited,
\* whichever way, and every transcript in thought_history has it set.
CompletedAtIffLoopExited ==
    /\ \A p \in Procs :
          (thought[p].completed_at # None) <=> (pc[p] \in {"final", "done"})
    /\ \A i \in 1..Len(thought_history) : thought_history[i].completed_at # None

\* C9 amended: completed_at is set exactly when the loop has exited by
\* success, by a failure that ends the run or by exhaustion; it is unset
\* while the run iterates and stays unset when an exception ended the loop,
\* so a stored transcript without it has status error and a last step of
\* type error.
CompletedAtIffLoopExitedNormally ==
    /\ \A p \in Procs :
          (thought[p].completed_at # None) <=>
              (pc[p] \in {"final", "done"} /\ frame[p].exc = NoException)
    /\ \A i \in 1..Len(thought_history) :
          thought_history[i].completed_at = None =>
              /\ thought_history[i].status = "error"
              /\ Last(thought_history[i].thought_steps).step_type = "error"

\* C9 witness: the history holds a transcript of a run that ended by a
\* failed action and one of a run that used up its budget, both completed
CompletedAfterFailureAndExhaustion ==
    /\ Len(thought_history) = 2
    /\ continue_on_error
    /\ \E p \in Procs : Done(p) /\ LastActionFailed(p) /\ frame[p].think_calls = 2
    /\ thought_history[1].final_result # None
    /\ \A i \in 1..2 : thought_history[i].completed_at # None

\* C10: a run appends its transcript once, when it ends: the history holds
\* one transcript per run that has ended and none for a run still iterating,
\* and the transcript a run returns is the last one of the history.
OneAppendPerRun ==
    /\ Len(thought_history) = runs_started - Cardinality({p \in Procs : InFlight(p)})
    /\ \A p \in Procs : Done(p) => Last(thought_history) = thought[p]

\* C10 witness: two runs have returned, the first one by a caught exception
TwoRunsTwoTranscripts ==
    /\ runs_started = 2
    /\ \E p \in Procs : Done(p)
    /\ Len(thought_history) = 2
    /\ thought_history[1].status = "error"
    /\ thought_history[1].completed_at = None

\* a direct call has just returned r
Returns(op) == reply = None /\ reply' # None /\ reply'[1].op = op
IsPrefix(a, b) == Len(a) <= Len(b) /\ \A i \in 1..Len(a) : b[i] = a[i]
\* e is an exception that a handler may raise when called with the text
HandlerRaises(e, text) ==
    \E h \in Handlers : \E o \in HandlerOutcomes(h, text) :
        o.kind = "raise" /\ e = Exception(o.cls, o.msg)
\* the LLM call of the first iteration raised
FirstLLMCallRaised(p) ==
    /\ Len(thought[p].thought_steps) >= 1
    /\ \E msg \in LLMErrors : thought[p].thought_steps[1].content = LLMFailText(msg)

\* C11: act on a name that is not in the tool table, whatever the agent's
\* state, returns success = false with an error message that is not empty
\* and names the tool, raises nothing, invokes no handler and leaves the
\* tool table and thought_history as they were.
UnknownToolFails ==
    [][(Returns("act") /\ tools[reply'[1].action] = None) =>
          /\ ~reply'[1].result.success
          /\ reply'[1].result.error # None
          /\ Len(reply'[1].result.error[1]) > 0
          /\ \E i \in 1..Len(reply'[1].result.error[1]) :
                reply'[1].result.error[1][i] = reply'[1].action
          /\ reply'[1].raised = NoException
          /\ reply'[1].invoked = None
          /\ tools' = tools
          /\ thought_history' = thought_history]_vars

\* C11 witness: while a run waits for the LLM and another tool is
\* registered, act was called with a name that has no tool
UnknownToolCalledDuringRun ==
    /\ reply # None
    /\ reply[1].op = "act"
    /\ reply[1].action = "calc"
    /\ tools["calc"] = None
    /\ tools["echo"] # None
    /\ Len(thought_history) = 1
    /\ \E p \in Procs : pc[p] = "llm"

\* C12: an exception of a handler never reaches run's except clause: act
\* returns success = false with the exception's message as error, and run
\* records an error step with that message and goes on as after any failed
\* action (next iteration, or the end of the run with status error when
\* continue_on_error is false).
HandlerFailureIsActionFailure ==
    \A p \in Procs :
        /\ ~HandlerRaises(frame[p].exc, frame[p].thought_process)
        /\ (pc[p] = "result" /\ frame[p].tool # None /\ ~frame[p].action_result.success) =>
              /\ frame[p].action_result.error # None
              /\ \E cls \in ExceptionClasses :
                    HandlerRaises(Exception(cls, frame[p].action_result.error[1]),
                                  frame[p].thought_process)
        /\ (/\ pc[p] \in {"loop", "think", "llm", "step", "exit", "final", "done"}
            /\ frame[p].tool # None
            /\ LastActionFailed(p)) =>
              /\ Last(thought[p].thought_steps) = ErrorStep(frame[p].action_result.error[1])
              /\ IF continue_on_error
                 THEN thought[p].status = "idle"
                 ELSE pc[p] \in {"exit", "final", "done"} /\ thought[p].status = "error"

\* C12 witness: the handler of the first iteration raised on the query
\* parameter, and the run goes on to its second iteration
HandlerRaisedRunGoesOn ==
    \E p \in Procs :
        /\ pc[p] = "think"
        /\ frame[p].iteration = 2
        /\ frame[p].tool = Some("search")
        /\ Last(thought[p].thought_steps) = ErrorStep(<<"unexpected", SP, "query">>)

\* C13: after any register_tool calls each registered name has one
\* descriptor in the think prompt, the number of descriptors is tools_count,
\* and act on a registered name invokes the handler registered last.
OneDescriptorPerName ==
    /\ \A n \in Words :
          tools[n] # None =>
              Cardinality({i \in 1..Len(Prompt("none").tools) : Prompt("none").tools[i] = n}) = 1
    /\ Len(Prompt("none").tools) = StatusReport.tools_count
    /\ (reply # None /\ reply[1].op = "act" /\ tools[reply[1].action] # None) =>
          reply[1].invoked = tools[reply[1].action]

\* C14: constructing an agent without a system prompt and without an API
\* key succeeds, and get_status of the new agent reports its name, status
\* idle and history_count 0.
ConstructionSucceeds ==
    (reply # None /\ reply[1].op = "new" /\ reply[1].system_prompt = None /\ ~reply[1].api_key) =>
        /\ reply[1].raised = NoException
        /\ reply[1].report # None
        /\ reply[1].report[1].name = AgentName
        /\ reply[1].report[1].status = "idle"
        /\ reply[1].report[1].history_count = 0

\* C15: a run whose first think call had no LLM client, or whose LLM call
\* raised, returns after one iteration with the steps thinking, action, the
\* 'no tool needed' message as final_result and status idle.
LLMFailureIsReasoningOnlyRun ==
    \A p \in Procs :
        (/\ Done(p)
         /\ frame[p].context = "none"
         /\ frame[p].max_iterations >= 1
         /\ ~using_llm \/ FirstLLMCallRaised(p)) =>
            /\ frame[p].think_calls = 1
            /\ frame[p].act_calls = 0
            /\ StepTypes(thought[p]) = <<"thinking", "action">>
            /\ thought[p].final_result = Some(NoToolNeeded)
            /\ thought[p].status = "idle"
            /\ status = "idle"

\* C16: from a budget that is not negative, spend calls never make the
\* balance negative, and a spend of more than the balance returns an error
\* payload and leaves the balance and the expense list as they were.
SpendKeepsBalanceNonNegative ==
    [][/\ budget' >= 0
       /\ (/\ Returns("manage_budget")
           /\ reply'[1].action = "spend"
           /\ reply'[1].amount.kind = "num"
           /\ reply'[1].amount.val > budget) =>
              /\ reply'[1].payload.error # None
              /\ reply'[1].raised = NoException
              /\ budget' = budget
              /\ expenses' = expenses]_vars

\* C16 witness: after a spend of 1 the balance is 1, and a spend of 2 was
\* answered with the error payload
OverspendRejected ==
    /\ reply # None
    /\ reply[1].op = "manage_budget"
    /\ reply[1].amount = [kind |-> "num", val |-> 2]
    /\ reply[1].payload.error = Some(Insufficient)
    /\ budget = 1
    /\ expenses = <<1>>

\* C17: any two transcripts in thought_history, which come from distinct
\* runs, have different task_id values.
TaskIdsDiffer ==
    \A i, j \in 1..Len(thought_history) :
        i # j => thought_history[i].task_id # thought_history[j].task_id

\* C18 as stated: no public operation, clear_history included, removes or
\* changes a transcript that is in thought_history.
HistoryAppendOnly ==
    [][IsPrefix(thought_history, thought_history')]_vars

\* C18 amended: run, think, act, register_tool and get_status keep every
\* transcript of thought_history at its position with its contents;
\* clear_history is the one operation that removes transcripts, and it
\* removes all of them.
HistoryAppendOnlyUntilCleared ==
    [][\/ IsPrefix(thought_history, thought_history')
       \/ Returns("clear_history") /\ thought_history' = <<>>]_vars

\* C18 witness: with two transcripts in the history, act was called
\* directly and the transcripts are still there
HistoryKeptAcrossAct ==
    /\ Len(thought_history) = 2
    /\ thought_history[1].thought_steps # <<>>
    /\ reply # None
    /\ reply[1].op = "act"
    /\ status = "acting"

\* C19: when run has returned after a successful action that invoked tool
\* T, the last step is an action step whose tools_used is T.
ToolNameRecorded ==
    \A p \in Procs :
        (/\ Done(p)
         /\ frame[p].exc = NoException
         /\ frame[p].action_result.success
         /\ frame[p].tool_name # None) =>
            /\ Last(thought[p].thought_steps).step_type = "action"
            /\ Last(thought[p].thought_steps).tools_used = << <<frame[p].tool_name[1]>> >>

\* C20: get_status changes nothing of the agent, and what it returns is what
\* another get_status call made right after it returns.
GetStatusIsPure ==
    [][Returns("get_status") =>
          /\ UNCHANGED <<agent_vars, tool_vars, config_vars, now, run_vars, side_vars>>
          /\ reply'[1].report = StatusReport']_vars

\* C20 witness: get_status was called after a direct act call left the
\* status at acting, with one transcript in the history and one tool
StatusReportedAfterAct ==
    /\ reply # None
    /\ reply[1].op = "get_status"
    /\ reply[1].report.status = "acting"
    /\ reply[1].report.history_count = 1
    /\ reply[1].report.tools_count = 1

\* C21: overlapping runs are not excluded and race on status and
\* current_task: a run that starts while others are in flight takes
\* current_task and sets status idle, and a run that ends while another is
\* still in flight sets status idle and current_task null under it.
RunsRaceOnStatusAndTask ==
    [][\A p \in Procs :
          /\ (pc[p] = "idle" /\ pc'[p] = "loop") =>
                /\ status' = "idle"
                /\ current_task' = Some(thought'[p].task_id)
          /\ (pc[p] = "final" /\ pc'[p] = "done") =>
                /\ status' = "idle"
                /\ current_task' = None
                /\ \A q \in Procs \ {p} : InFlight(q) => InFlight(q)']_vars

\* C21 witness: one run has returned, the other is still waiting in its
\* tool call, and the agent says idle with no current task
InFlightWhileIdle ==
    \E p, q \in Procs :
        /\ pc[p] = "done"
        /\ pc[q] = "tool"
        /\ thought[p].task_id # thought[q].task_id
        /\ status = "idle"
        /\ current_task = None

\* C22: overlapping runs lose, duplicate and mix nothing: the history holds
\* one transcript per run that has ended, the transcript of a run that has
\* returned is in it, and a run's transcript holds the steps of its own
\* iterations only, the newest thinking step being its own think output.
TranscriptsNotMixed ==
    /\ Len(thought_history) = runs_started - Cardinality({p \in Procs : InFlight(p)})
    /\ \A p \in Procs :
          /\ Done(p) => \E i \in 1..Len(thought_history) : thought_history[i] = thought[p]
          /\ pc[p] \notin {"idle", "raised"} =>
                /\ Len(thought[p].thought_steps) <= 2 * frame[p].think_calls
                /\ frame[p].think_calls >= 1 =>
                      Len(thought[p].thought_steps) >= 2 * frame[p].think_calls - 2
                /\ pc[p] \in {"act", "tool", "result"} =>
                      /\ Len(thought[p].thought_steps) = 2 * frame[p].think_calls - 1
                      /\ Last(thought[p].thought_steps) =
                            ThoughtStep("thinking", frame[p].thought_process, "0.8", <<>>)

\* C22 witness: the run that started in the later second ended first, and
\* both transcripts are in the history, each with its own steps
OverlappedRunsBothStored ==
    \E p, q \in Procs :
        /\ Done(p) /\ Done(q)
        /\ thought[p].task_id < thought[q].task_id
        /\ thought_history = <<thought[q], thought[p]>>
        /\ Len(thought[p].thought_steps) = 4
        /\ Len(thought[q].thought_steps) = 2
        /\ thought[p].thought_steps[1] # thought[q].thought_steps[1]

\* C23: the agent's status is always idle, thinking or acting, never error
\* or learning; when a run that nothing overlaps has returned, whatever its
\* outcome, the agent's status is idle and current_task is null.
AgentStatusNeverError ==
    /\ status \in {"idle", "thinking", "acting"}
    /\ \A p \in Procs : Done(p) => status = "idle" /\ current_task = None

\* C23 witness: a run ended by a caught exception after an act call; the
\* transcript says error, the agent says idle
ErrorOnlyInTranscript ==
    \E p \in Procs :
        /\ Done(p)
        /\ frame[p].exc # NoException
        /\ frame[p].act_calls = 1
        /\ thought[p].status = "error"
        /\ status = "idle"
        /\ current_task = None

\* a transcript with at most one action step, which is then the last step,
\* a final_result exactly when the last step is an action step, and status
\* idle or error, error only with a last step of type error
WellFormed(t) ==
    LET steps == t.thought_steps
        n == Len(steps)
    IN  /\ \A i \in 1..n : steps[i].step_type = "action" => i = n
        /\ (t.final_result # None) <=> (n >= 1 /\ steps[n].step_type = "action")
        /\ t.status \in {"idle", "error"}
        /\ t.status = "error" => (n >= 1 /\ steps[n].step_type = "error")

\* C24: every transcript that run returns, and so every transcript in
\* thought_history, is well-formed.
ReturnedTranscriptsWellFormed ==
    /\ \A p \in Procs : Done(p) => WellFormed(thought[p])
    /\ \A i \in 1..Len(thought_history) : WellFormed(thought_history[i])

\* C24 witness: a run returned the steps thinking, error, thinking, action
\* with a final_result
ActionStepAfterFailure ==
    \E p \in Procs :
        /\ Done(p)
        /\ StepTypes(thought[p]) = <<"thinking", "error", "thinking", "action">>
        /\ thought[p].final_result # None
        /\ thought[p].status = "idle"

LedgerNeverNegative ==
    [][/\ budget' >= 0
       /\ (Returns("manage_budget") /\ reply'[1].action = "spend") => budget' <= budget]_vars

Running == {t \in TaskIds : task_status[t] = "running"}
Holders == {e \in Execs : workers[e].pc = "running"}

\* C27: at most max_concurrent tasks are RUNNING; the semaphore's value is
\* max_concurrent less the executions between their acquire and their
\* release, and a RUNNING task belongs to an execution that holds a slot,
\* which it gives back when it sets COMPLETED or FAILED.
RunningWithinSlots ==
    /\ Cardinality(Running) <= max_concurrent
    /\ semaphore = max_concurrent - Cardinality(Holders)
    /\ semaphore >= 0
    /\ \A t \in Running : \E e \in Holders : workers[e].task = t

\* C27 witness: both slots are taken by running tasks and a third
\* execution waits for the semaphore
ThirdExecutionWaits ==
    /\ max_concurrent = 2
    /\ semaphore = 0
    /\ Running = TaskIds
    /\ \E e \in Execs : workers[e].pc = "acquire"
    /\ \E e \in Execs : workers[e].pc = "running" /\ workers[e].idx > 0

\* C28: a task's status only moves forward: a COMPLETED or FAILED task
\* keeps its status, a RUNNING task does not return to PENDING, and no task
\* becomes CANCELLED.
TaskStatusMovesForward ==
    [][\A t \in TaskIds :
          /\ task_status[t] \in {"completed", "failed"} => task_status'[t] = task_status[t]
          /\ task_status[t] = "running" => task_status'[t] # "pending"
          /\ task_status'[t] # "cancelled"]_vars

\* C29: for a limit L >= 0 the history endpoint returns the L newest
\* transcripts (all of them when there are fewer), in append order, and
\* a history_count of at most L.
HistoryLimited ==
    (reply # None /\ reply[1].op = "history" /\ reply[1].limit >= 0) =>
        LET n == Len(thought_history)
            L == reply[1].limit
        IN  /\ reply[1].history_count <= L
            /\ Len(reply[1].history) <= L
            /\ reply[1].history =
                  SubSeq(thought_history, (IF n > L THEN n - L ELSE 0) + 1, n)

\* the number of entries that are more important than e
Rank(entries, e) ==
    Cardinality({i \in 1..Len(entries) : entries[i].importance > e.importance})
\* e is among the entries that any choice of the k most important takes
Leads(entries, e, k) ==
    Cardinality({i \in 1..Len(entries) : entries[i].importance >= e.importance}) <= k
IsEntryOf(entries, v) == v # None /\ \E i \in 1..Len(entries) : entries[i] = v[1]

\* C30: after every add_short_term call that returns, short_term holds at
\* most 100 entries; a call that returns after it made the list longer than
\* 100 leaves short_term empty and has changed at most 10 keys of long_term:
\* each changed key holds one of the 10 most important entries of the
\* list under its own id, also on disk, every entry that is certainly among
\* the 10 most important has its id filled that way, and nothing else
\* of the list is kept.
ShortTermConsolidated ==
    [][(Returns("add_short_term") /\ reply'[1].raised = NoException) =>
          LET all == Append(short_term, reply'[1].entry)
              changed == {k \in Ids : long_term'[k] # long_term[k]}
              held == {k \in Ids : IsEntryOf(all, long_term'[k])}
          IN  /\ Len(short_term') <= ShortTermLimit
              /\ Len(all) <= ShortTermLimit =>
                    /\ short_term' = all
                    /\ long_term' = long_term /\ disk' = disk
              /\ Len(all) > ShortTermLimit =>
                    /\ short_term' = <<>>
                    /\ Cardinality(changed) <= Consolidated
                    /\ changed \subseteq held
                    /\ Cardinality(held) <= Consolidated
                    /\ \A k \in held :
                          /\ long_term'[k][1].id = k
                          /\ Rank(all, long_term'[k][1]) < Consolidated
                          /\ disk'[k] = long_term'[k]
                    /\ \A i \in 1..Len(all) :
                          Leads(all, all[i], Consolidated) => all[i].id \in held]_vars

\* C30 witness: the 101st call returned; entries of three ids and four
\* levels of importance were added, and long_term holds three of them
HundredFirstConsolidated ==
    /\ reply # None
    /\ reply[1].op = "add_short_term"
    /\ reply[1].raised = NoException
    /\ adds = ShortTermLimit + 1
    /\ short_term = <<>>
    /\ feed = [ids |-> 3, levels |-> 4]
    /\ Cardinality({k \in Ids : long_term[k] # None}) = 3

====
